---- MODULE Spec2Model ----
(***************************************************************************)
(* A model of rename-cli (src/src/main.rs): main, run and                  *)
(* list_files_in_dir.  A string is a sequence of one-character strings.    *)
(* The run is cut into steps at its I/O points; every step appends what it *)
(* printed, read or asked of the filesystem to `trace`.  Writes to stdout  *)
(* and stderr are taken to succeed; reads of stdin and of the directory    *)
(* may fail.                                                               *)
(***************************************************************************)
EXTENDS Integers, Sequences, FiniteSets, TLC

(***************************************************************************)
(* Characters and strings                                                  *)
(***************************************************************************)

\* The characters of the model, in code-point order (String's Ord is byte order).
Chars == << "\n", " ", "*", "/", "?", "N", "Y", "[", "]", "a", "b", "d", "e", "n", "s", "y" >>

Ord(c) == CHOOSE i \in DOMAIN Chars : Chars[i] = c

\* String's Ord: lexicographic on bytes, a proper prefix is smaller.
RECURSIVE LexLess(_, _)
LexLess(s, t) ==
    IF t = << >> THEN FALSE
    ELSE IF s = << >> THEN TRUE
    ELSE IF Head(s) # Head(t) THEN Ord(Head(s)) < Ord(Head(t))
    ELSE LexLess(Tail(s), Tail(t))

\* files.sort(): insertion of x into an already sorted vector, after its equals.
RECURSIVE SortInsert(_, _)
SortInsert(x, v) ==
    IF v = << >> THEN << x >>
    ELSE IF LexLess(x, Head(v)) THEN << x >> \o v
    ELSE << Head(v) >> \o SortInsert(x, Tail(v))

RECURSIVE SortVec(_)
SortVec(v) ==
    IF v = << >> THEN << >>
    ELSE SortInsert(v[Len(v)], SortVec(SubSeq(v, 1, Len(v) - 1)))

IsWhitespace(c) == c \in { " ", "\n" }

RECURSIVE TrimStart(_)
TrimStart(s) ==
    IF s # << >> /\ IsWhitespace(Head(s)) THEN TrimStart(Tail(s)) ELSE s

RECURSIVE TrimEnd(_)
TrimEnd(s) ==
    IF s # << >> /\ IsWhitespace(s[Len(s)]) THEN TrimEnd(SubSeq(s, 1, Len(s) - 1)) ELSE s

\* str::trim
Trim(s) == TrimEnd(TrimStart(s))

LowerChar(c) == IF c = "N" THEN "n" ELSE IF c = "Y" THEN "y" ELSE c

\* str::to_lowercase
ToLowercase(s) == [i \in DOMAIN s |-> LowerChar(s[i])]

\* from occurs in s at position i (1-based)
OccursAt(s, from, i) ==
    /\ i >= 1
    /\ i + Len(from) - 1 <= Len(s)
    /\ SubSeq(s, i, i + Len(from) - 1) = from

\* str::replace from position i on: the matches are taken leftmost first and do
\* not overlap; an empty `from` matches at every character boundary.
RECURSIVE ReplaceFrom(_, _, _, _)
ReplaceFrom(s, from, to, i) ==
    IF from = << >>
    THEN IF i > Len(s) THEN to
         ELSE to \o << s[i] >> \o ReplaceFrom(s, from, to, i + 1)
    ELSE IF i > Len(s) THEN << >>
    ELSE IF OccursAt(s, from, i) THEN to \o ReplaceFrom(s, from, to, i + Len(from))
    ELSE << s[i] >> \o ReplaceFrom(s, from, to, i + 1)

\* a variant of Replace: str::replacen(from, to, 1), the first match only
RECURSIVE ReplaceFirstFrom(_, _, _, _)
ReplaceFirstFrom(s, from, to, i) ==
    IF OccursAt(s, from, i) THEN to \o SubSeq(s, i + Len(from), Len(s))
    ELSE IF i > Len(s) THEN << >>
    ELSE << s[i] >> \o ReplaceFirstFrom(s, from, to, i + 1)

ReplaceFirst(s, from, to) == ReplaceFirstFrom(s, from, to, 1)

\* str::replace(from, to)
Replace(s, from, to) == ReplaceFrom(s, from, to, 1)

(***************************************************************************)
(* glob::Pattern, as the run uses it (Pattern::new and Pattern::matches    *)
(* with the default MatchOptions).  The model's alphabet has neither '!'   *)
(* nor '-', so a character class is a plain set of characters.             *)
(***************************************************************************)

IsSeparator(c) == c = "/"

Tok(t, c, cs) == [t |-> t, c |-> c, cs |-> cs]

\* the number of consecutive '*' of p from position i on
RECURSIVE StarRun(_, _)
StarRun(p, i) ==
    IF i <= Len(p) /\ p[i] = "*" THEN 1 + StarRun(p, i + 1) ELSE 0

\* the positions of ']' in p at or after position i
ClosingAt(p, i) == { q \in i..Len(p) : p[q] = "]" }

Min(S) == CHOOSE x \in S : \A y \in S : x <= y

\* Pattern::new from position i on, acc the tokens so far: [ok, tokens].
RECURSIVE Tokenize(_, _, _)
Tokenize(p, i, acc) ==
    IF i > Len(p) THEN [ok |-> TRUE, tokens |-> acc]
    ELSE IF p[i] = "?" THEN Tokenize(p, i + 1, Append(acc, Tok("any", "", {})))
    ELSE IF p[i] = "*" THEN
        LET count == StarRun(p, i)
            j     == i + count
        IN  IF count > 2 THEN [ok |-> FALSE, tokens |-> << >>]
            ELSE IF count = 2 THEN
                IF i = 1 \/ IsSeparator(p[i - 1])
                THEN LET pushed == IF Len(acc) > 1 /\ acc[Len(acc)].t = "recseq"
                                   THEN acc
                                   ELSE Append(acc, Tok("recseq", "", {}))
                     IN  IF j <= Len(p) /\ IsSeparator(p[j]) THEN Tokenize(p, j + 1, pushed)
                         ELSE IF j > Len(p) THEN Tokenize(p, j, pushed)
                         ELSE [ok |-> FALSE, tokens |-> << >>]
                ELSE [ok |-> FALSE, tokens |-> << >>]
            ELSE Tokenize(p, j, Append(acc, Tok("seq", "", {})))
    ELSE IF p[i] = "[" THEN
        IF i + 2 <= Len(p) /\ ClosingAt(p, i + 2) # {}
        THEN LET q == Min(ClosingAt(p, i + 2))
             IN  Tokenize(p, q + 1,
                          Append(acc, Tok("within", "", { p[k] : k \in (i + 1)..(q - 1) })))
        ELSE [ok |-> FALSE, tokens |-> << >>]
    ELSE Tokenize(p, i + 1, Append(acc, Tok("char", p[i], {})))

\* Pattern::new(&pattern_str): [ok |-> FALSE, ...] is the PatternError
PatternNew(p) == Tokenize(p, 1, << >>)

\* Pattern::matches_from: do the tokens from ti on match s from position si on?
RECURSIVE MatchesFrom(_, _, _, _)
MatchesFrom(tokens, s, ti, si) ==
    IF ti > Len(tokens) THEN si > Len(s)
    ELSE LET tk == tokens[ti] IN
        IF tk.t = "seq"
        THEN \E k \in si..(Len(s) + 1) : MatchesFrom(tokens, s, ti + 1, k)
        ELSE IF tk.t = "recseq"
        THEN \/ MatchesFrom(tokens, s, ti + 1, si)
             \/ \E k \in (si + 1)..(Len(s) + 1) :
                    IsSeparator(s[k - 1]) /\ MatchesFrom(tokens, s, ti + 1, k)
             \/ MatchesFrom(tokens, s, ti + 1, Len(s) + 1)
        ELSE /\ si <= Len(s)
             /\ CASE tk.t = "any"    -> TRUE
                  [] tk.t = "within" -> s[si] \in tk.cs
                  [] OTHER           -> s[si] = tk.c
             /\ MatchesFrom(tokens, s, ti + 1, si + 1)

\* pattern.matches(file_name)
Matches(pattern, file_name) == MatchesFrom(pattern.tokens, file_name, 1, 1)

\* .filter(|file_name| pattern.matches(file_name)).collect()
FilterMatched(pattern, files) ==
    LET Keep(f) == Matches(pattern, f) IN SelectSeq(files, Keep)

\* the matched names mapped to (old, new) and the unchanged ones filtered out
RECURSIVE Renames(_, _, _)
Renames(matched, from, to) ==
    IF matched = << >> THEN << >>
    ELSE LET old == Head(matched)
             new == Replace(old, from, to)
             rest == Renames(Tail(matched), from, to)
         IN  IF old # new THEN << << old, new >> >> \o rest ELSE rest

(***************************************************************************)
(* The state                                                               *)
(***************************************************************************)

VARIABLES
    \* the world outside the process
    pathKind,       \* what args.path names: "dir", "file" or "missing"
    readDirOk,      \* whether fs::read_dir(path) can open the directory
    dir,            \* the directory's entries, in the order read_dir yields them
    entries,        \* the directory's content now: a set of [name, kind]
    denied,         \* the names whose rename the filesystem refuses
    \* the process
    args,           \* struct Args (path is pathKind)
    pc,             \* the position in main / run
    di,             \* list_files_in_dir: the index of the next entry of read_dir
    files,          \* list_files_in_dir: files
    all_files, p_input, f_input, t_input,
    pattern_str, from_str, to_str,
    matched_files, renames, confirmation,
    ri,             \* the index of the next entry of `for ... in &renames`
    result,         \* "running", or what run returned: "Ok" or "Err"
    trace           \* everything printed, read and asked of the filesystem, in order

world == << pathKind, readDirOk, dir, denied >>
locals == << all_files, p_input, f_input, t_input, pattern_str, from_str, to_str,
             matched_files, renames, confirmation >>
vars == << pathKind, readDirOk, dir, entries, denied, args, pc, di, files, all_files,
           p_input, f_input, t_input, pattern_str, from_str, to_str,
           matched_files, renames, confirmation, ri, result, trace >>

\* if files.len() >= 50 { break; }
FILE_CAP == 50

\* Option<String>
None == [some |-> FALSE, v |-> << >>]
Some(v) == [some |-> TRUE, v |-> v]

\* one event of the trace; a and b are strings
Ev(ev, a, b) == [ev |-> ev, a |-> a, b |-> b]
E(ev) == Ev(ev, << >>, << >>)

\* path.display() of args.path, and path.join(name)
PathPrefix == << "d", "/" >>
Join(name) == PathPrefix \o name
BaseName(path) == SubSeq(path, Len(PathPrefix) + 1, Len(path))

\* what stdin().read_line returns: a line (empty at end of input) or an io::Error
Line(s) == [err |-> FALSE, line |-> s]
ReadError == [err |-> TRUE, line |-> << >>]

\* a directory entry; fault is "none", "entry_err" (the entry cannot be read),
\* "type_err" (file_type() fails) or "non_utf8" (file_name().to_str() is None)
Entry(name, kind, fault) == [name |-> name, kind |-> kind, fault |-> fault]

\* the content of a directory that read_dir yields as d
ContentOf(d) == { [name |-> d[i].name, kind |-> d[i].kind] : i \in DOMAIN d }

NamesOf(content) == { e.name : e \in content }
KindOf(content, name) ==
    IF name \in NamesOf(content)
    THEN (CHOOSE e \in content : e.name = name).kind
    ELSE "none"

(***************************************************************************)
(* The decisions of run and list_files_in_dir                              *)
(***************************************************************************)

\* a variant of IsDir: path.exists() for path.is_dir()
IsDirExists(kind) == kind # "missing"

\* path.is_dir()
IsDir(kind) == kind = "dir"

\* entry.file_type()?.is_file() and file_name().to_str() is Some
IsListedFile(e) == e.kind = "file" /\ e.fault # "non_utf8"

\* a variant of CapReached: > for >=
CapReachedLate(v) == Len(v) > FILE_CAP

\* if files.len() >= 50 { break; }
CapReached(v) == Len(v) >= FILE_CAP

\* if args.pattern.is_none(): the whole list is printed
PrintsAllFiles(a) == ~a.pattern.some

\* a variant of AllSupplied: the mode chosen by the pattern alone
AllSuppliedPatternOnly(a) == a.pattern.some

\* if let (Some(p), Some(f), Some(t)) = (args.pattern, args.from_str, args.to_str)
AllSupplied(a) == a.pattern.some /\ a.from_str.some /\ a.to_str.some

\* if all_files.is_empty()
NoFiles(v) == v = << >>

\* if pattern_str.is_empty()
NoPattern(s) == s = << >>

\* a variant of NoFrom: the check of A left out
NoFromUnchecked(s) == FALSE

\* if from_str.is_empty()
NoFrom(s) == s = << >>

\* if matched_files.is_empty()
NoMatch(v) == v = << >>

\* a variant of NothingToRename: the check of the plan left out
NothingToRenameUnchecked(r) == FALSE

\* if renames.is_empty()
NothingToRename(r) == r = << >>

\* a variant of AsksConfirmation: the flag ignored
AsksConfirmationAlways(a) == TRUE

\* if !args.yes: the confirmation is prompted for and read
AsksConfirmation(a) == ~a.yes

\* a variant of Proceeds: to_lowercase() left out
ProceedsCaseSensitive(a, answer) == a.yes \/ Trim(answer) = << "y" >>

\* if args.yes || confirmation.trim().to_lowercase() == "y"
Proceeds(a, answer) == a.yes \/ ToLowercase(Trim(answer)) = << "y" >>

\* fs::rename(old_path, new_path) in a directory of this content: does it succeed?
\* The source must exist and be movable; the target must not be a directory
\* (path.join("") is the directory itself).
RenameOk(content, refused, old_path, new_path) ==
    /\ BaseName(old_path) \in NamesOf(content)
    /\ BaseName(old_path) \notin refused
    /\ BaseName(new_path) # << >>
    /\ KindOf(content, BaseName(new_path)) # "dir"

\* the directory after a successful fs::rename: the source entry takes the new
\* name, replacing an entry of that name
AfterRename(content, old_path, new_path) ==
    LET old == BaseName(old_path)
        new == BaseName(new_path)
    IN  { e \in content : e.name # old /\ e.name # new }
            \cup { [name |-> new, kind |-> KindOf(content, old)] }

\* a variant of NextRename: the loop left at the first failure
NextRenameUntilFailure(ok, i, n) == IF ok THEN i + 1 ELSE n + 1

\* the for loop over &renames after the attempt on entry i: the next entry,
\* whatever the attempt returned
NextRename(ok, i, n) == i + 1

\* println!("{}", file_name) for every listed file
FileEvents(v) == [i \in DOMAIN v |-> Ev("file", v[i], << >>)]

\* println!("{} -> {}", old, new) for every entry of the plan
PlanEvents(r) == [i \in DOMAIN r |-> Ev("plan", r[i][1], r[i][2])]

(***************************************************************************)
(* The steps of main / run                                                 *)
(***************************************************************************)

\* run returns Ok(()) after printing evs
ReturnOk(evs) ==
    /\ trace' = trace \o evs
    /\ result' = "Ok"
    /\ pc' = "done"

\* run returns Err(e) after evs, and main prints "Error: e"
ReturnErr(evs, kind) ==
    /\ trace' = trace \o evs \o << Ev("Error", << kind >>, << >>) >>
    /\ result' = "Err"
    /\ pc' = "done"

\* main, and run up to println!("List {}:")
CheckPath ==
    /\ pc = "start"
    /\ IF ~IsDir(pathKind)
       THEN ReturnErr(<< E("fs_is_dir") >>, "not_a_directory")
       ELSE /\ trace' = trace \o << E("fs_is_dir"), E("list_header") >>
            /\ pc' = "read_dir"
            /\ UNCHANGED result
    /\ UNCHANGED << world, entries, args, di, files, locals, ri >>

\* list_files_in_dir: fs::read_dir(path)?
ReadDir ==
    /\ pc = "read_dir"
    /\ IF ~readDirOk
       THEN /\ ReturnErr(<< E("fs_read_dir") >>, "io")
            /\ UNCHANGED << di, files >>
       ELSE /\ trace' = Append(trace, E("fs_read_dir"))
            /\ di' = 1
            /\ files' = << >>
            /\ pc' = IF dir = << >> THEN "list_done" ELSE "list_loop"
            /\ UNCHANGED result
    /\ UNCHANGED << world, entries, args, locals, ri >>

\* list_files_in_dir: one iteration of the loop over the entries
ListEntry ==
    /\ pc = "list_loop"
    /\ di <= Len(dir)
    /\ LET e == dir[di] IN
        IF e.fault \in { "entry_err", "type_err" }
        THEN /\ ReturnErr(<< >>, "io")
             /\ UNCHANGED << di, files >>
        ELSE /\ files' = IF IsListedFile(e) THEN Append(files, e.name) ELSE files
             /\ di' = di + 1
             /\ pc' = IF CapReached(files') \/ di' > Len(dir) THEN "list_done" ELSE "list_loop"
             /\ UNCHANGED << result, trace >>
    /\ UNCHANGED << world, entries, args, locals, ri >>

\* list_files_in_dir: files.sort(); Ok(files), and run up to the mode selection
ListDone ==
    /\ pc = "list_done"
    /\ all_files' = SortVec(files)
    /\ IF NoFiles(all_files')
       THEN ReturnOk(<< E("dir_empty") >>)
       ELSE /\ trace' = trace \o (IF PrintsAllFiles(args) THEN FileEvents(all_files') ELSE << >>)
            /\ pc' = "mode"
            /\ UNCHANGED result
    /\ UNCHANGED << world, entries, args, di, files, p_input, f_input, t_input,
                    pattern_str, from_str, to_str, matched_files, renames,
                    confirmation, ri >>

\* the mode selection: the arguments are taken, or the pattern is prompted for
SelectMode ==
    /\ pc = "mode"
    /\ IF AllSupplied(args)
       THEN /\ pattern_str' = args.pattern.v
            /\ from_str' = args.from_str.v
            /\ to_str' = args.to_str.v
            /\ trace' = trace \o << E("separator"),
                                    Ev("mode_pattern", pattern_str', << >>),
                                    Ev("mode_replace", from_str', to_str') >>
            /\ pc' = "filter"
       ELSE /\ trace' = trace \o << E("separator"), E("prompt_pattern") >>
            /\ pc' = "read_pattern"
            /\ UNCHANGED << pattern_str, from_str, to_str >>
    /\ UNCHANGED << world, entries, args, di, files, all_files, p_input, f_input, t_input,
                    matched_files, renames, confirmation, ri, result >>

\* the lines the model types at the prompts: text ends in a newline unless the
\* input ends first; an empty line is the end of input
Typed(s) == Line(s \o << "\n" >>)
EndOfInput == Line(<< >>)

PatternInputs ==
    { Typed(<< "*" >>), Typed(<< "a", "*" >>), Typed(<< " ", "?", "?" >>), Typed(<< "[" >>),
      Typed(<< " " >>), EndOfInput, ReadError }
FromInputs == { Typed(<< "a" >>), Typed(<< " ", "a", "a" >>), Typed(<< >>), ReadError }
ToInputs == { Typed(<< "b" >>), Typed(<< >>), Typed(<< "a", "b" >>), ReadError }
ConfirmInputs ==
    { Typed(<< "y" >>), Typed(<< "Y" >>), Typed(<< " ", "y", " " >>), Line(<< "y" >>),
      Typed(<< "n" >>), Typed(<< "N" >>), Typed(<< >>), Typed(<< "y", "e", "s" >>),
      EndOfInput, ReadError }

\* io::stdin().read_line(&mut buf)
ReadLineEv(input) == Ev("read_line", input.line, << >>)

\* read_line(&mut p_input)? up to the prompt for A
ReadPattern ==
    /\ pc = "read_pattern"
    /\ \E input \in PatternInputs :
        IF input.err
        THEN /\ ReturnErr(<< ReadLineEv(input) >>, "stdin")
             /\ UNCHANGED << p_input, pattern_str >>
        ELSE /\ p_input' = input.line
             /\ pattern_str' = Trim(p_input')
             /\ IF NoPattern(pattern_str')
                THEN ReturnOk(<< ReadLineEv(input), E("no_pattern") >>)
                ELSE /\ trace' = trace \o << ReadLineEv(input), E("separator"),
                                             E("replace_header"), E("prompt_A") >>
                     /\ pc' = "read_A"
                     /\ UNCHANGED result
    /\ UNCHANGED << world, entries, args, di, files, all_files, f_input, t_input,
                    from_str, to_str, matched_files, renames, confirmation, ri >>

\* read_line(&mut f_input)? up to the prompt for B
ReadA ==
    /\ pc = "read_A"
    /\ \E input \in FromInputs :
        IF input.err
        THEN /\ ReturnErr(<< ReadLineEv(input) >>, "stdin")
             /\ UNCHANGED << f_input, from_str >>
        ELSE /\ f_input' = input.line
             /\ from_str' = Trim(f_input')
             /\ IF NoFrom(from_str')
                THEN ReturnOk(<< ReadLineEv(input), E("empty_A") >>)
                ELSE /\ trace' = trace \o << ReadLineEv(input), E("prompt_B") >>
                     /\ pc' = "read_B"
                     /\ UNCHANGED result
    /\ UNCHANGED << world, entries, args, di, files, all_files, p_input, t_input,
                    pattern_str, to_str, matched_files, renames, confirmation, ri >>

\* read_line(&mut t_input)?; to_str = t_input.trim()
ReadB ==
    /\ pc = "read_B"
    /\ \E input \in ToInputs :
        IF input.err
        THEN /\ ReturnErr(<< ReadLineEv(input) >>, "stdin")
             /\ UNCHANGED << t_input, to_str >>
        ELSE /\ t_input' = input.line
             /\ to_str' = Trim(t_input')
             /\ trace' = Append(trace, ReadLineEv(input))
             /\ pc' = "filter"
             /\ UNCHANGED result
    /\ UNCHANGED << world, entries, args, di, files, all_files, p_input, f_input,
                    pattern_str, from_str, matched_files, renames, confirmation, ri >>

\* Pattern::new(&pattern_str)? and the filter of all_files
Filter ==
    /\ pc = "filter"
    /\ LET pattern == PatternNew(pattern_str) IN
        IF ~pattern.ok
        THEN /\ ReturnErr(<< >>, "pattern")
             /\ UNCHANGED matched_files
        ELSE /\ matched_files' = FilterMatched(pattern, all_files)
             /\ IF NoMatch(matched_files')
                THEN ReturnOk(<< Ev("no_match", pattern_str, << >>) >>)
                ELSE /\ pc' = "plan"
                     /\ UNCHANGED << result, trace >>
    /\ UNCHANGED << world, entries, args, di, files, all_files, p_input, f_input, t_input,
                    pattern_str, from_str, to_str, renames, confirmation, ri >>

\* the preview: the plan is computed and printed, and the confirmation prompted for
Plan ==
    /\ pc = "plan"
    /\ renames' = Renames(matched_files, from_str, to_str)
    /\ IF NothingToRename(renames')
       THEN ReturnOk(<< E("preview_header"), E("nothing_to_rename") >>)
       ELSE /\ trace' = trace \o << E("preview_header") >> \o PlanEvents(renames')
                              \o (IF AsksConfirmation(args) THEN << E("prompt_confirm") >> ELSE << >>)
            /\ pc' = IF AsksConfirmation(args) THEN "read_confirm" ELSE "decide"
            /\ UNCHANGED result
    /\ UNCHANGED << world, entries, args, di, files, all_files, p_input, f_input, t_input,
                    pattern_str, from_str, to_str, matched_files, confirmation, ri >>

\* io::stdin().read_line(&mut confirmation)?
ReadConfirm ==
    /\ pc = "read_confirm"
    /\ \E input \in ConfirmInputs :
        IF input.err
        THEN /\ ReturnErr(<< ReadLineEv(input) >>, "stdin")
             /\ UNCHANGED confirmation
        ELSE /\ confirmation' = input.line
             /\ trace' = Append(trace, ReadLineEv(input))
             /\ pc' = "decide"
             /\ UNCHANGED result
    /\ UNCHANGED << world, entries, args, di, files, all_files, p_input, f_input, t_input,
                    pattern_str, from_str, to_str, matched_files, renames, ri >>

\* if args.yes || confirmation.trim().to_lowercase() == "y" { ... } else { ... }
Decide ==
    /\ pc = "decide"
    /\ IF Proceeds(args, confirmation)
       THEN /\ trace' = Append(trace, E("start"))
            /\ ri' = 1
            /\ pc' = "rename"
            /\ UNCHANGED result
       ELSE /\ ReturnOk(<< E("cancelled") >>)
            /\ UNCHANGED ri
    /\ UNCHANGED << world, entries, args, di, files, locals >>

\* one iteration of the loop over &renames: fs::rename and its report
RenameEntry ==
    /\ pc = "rename"
    /\ ri <= Len(renames)
    /\ LET old_path == Join(renames[ri][1])
           new_path == Join(renames[ri][2])
           ok == RenameOk(entries, denied, old_path, new_path)
       IN  /\ entries' = IF ok THEN AfterRename(entries, old_path, new_path) ELSE entries
           /\ trace' = trace \o << Ev("fs_rename", old_path, new_path),
                                   IF ok THEN Ev("renamed", old_path, new_path)
                                         ELSE Ev("failed", old_path, << >>) >>
           /\ ri' = NextRename(ok, ri, Len(renames))
    /\ UNCHANGED << world, args, pc, di, files, locals, result >>

\* the loop is over: the completion message, and Ok(())
Finish ==
    /\ pc = "rename"
    /\ ri > Len(renames)
    /\ ReturnOk(<< E("success") >>)
    /\ UNCHANGED << world, entries, args, di, files, locals, ri >>

Next ==
    \/ CheckPath
    \/ ReadDir
    \/ ListEntry
    \/ ListDone
    \/ SelectMode
    \/ ReadPattern
    \/ ReadA
    \/ ReadB
    \/ Filter
    \/ Plan
    \/ ReadConfirm
    \/ Decide
    \/ RenameEntry
    \/ Finish

(***************************************************************************)
(* The runs of the model: the target, the directory, the arguments         *)
(***************************************************************************)

\* a small directory holds at most MaxDirEntries entries
MaxDirEntries == 2

\* a large directory holds up to FILE_CAP + MaxExtra entries
MaxExtra == 2

DistinctNames(d) == \A i, j \in DOMAIN d : i # j => d[i].name # d[j].name

DirsOver(choice) ==
    { d \in UNION { [1..n -> choice] : n \in 0..MaxDirEntries } : DistinctNames(d) }

\* directories for the whole pipeline: regular files, and a subdirectory named "b"
PipelineEntries ==
    { Entry(<< "a" >>, "file", "none"), Entry(<< "a", "a" >>, "file", "none"),
      Entry(<< "a", "a", "a" >>, "file", "none"),
      Entry(<< "b" >>, "file", "none"), Entry(<< "b" >>, "dir", "none") }

\* directories for the enumerator: every kind of entry, and the entries it fails on
EnumeratorEntries ==
    { Entry(n, k, "none") : n \in { << "a" >>, << "a", "a" >>, << "b" >> },
                            k \in { "file", "dir", "symlink" } }
    \cup { Entry(<< "?" >>, "file", f) : f \in { "entry_err", "type_err", "non_utf8" } }

\* the i-th name of a large directory: three letters, in sorted order
Letters == << "a", "b", "d", "e", "n", "s", "y" >>
GenName(i) ==
    << Letters[((i \div 49) % 7) + 1], Letters[((i \div 7) % 7) + 1], Letters[(i % 7) + 1] >>

\* the order in which read_dir yields the entries of a large directory
OrderOf(order, n, k) ==
    CASE order = "ascending"  -> k
      [] order = "descending" -> n + 1 - k
      [] OTHER                -> IF k % 2 = 1 THEN (k + 1) \div 2 ELSE n + 1 - (k \div 2)

LargeDir(n, order, mixed) ==
    [k \in 1..n |->
        Entry(GenName(OrderOf(order, n, k)),
              IF mixed /\ k % 5 = 0 THEN "dir" ELSE "file", "none")]

LargeDirs ==
    { LargeDir(n, order, mixed) :
        n \in (FILE_CAP - 1)..(FILE_CAP + MaxExtra),
        order \in { "ascending", "descending", "zigzag" },
        mixed \in BOOLEAN }

ArgPatterns == { << "*" >>, << "[", "a" >> }
ArgFroms == { << "a" >>, << >> }
ArgTos == { << "b" >> }

\* the positional arguments are supplied left to right: a later one only with
\* the earlier ones
ArgSets ==
    { [pattern |-> None, from_str |-> None, to_str |-> None, yes |-> y] : y \in BOOLEAN }
    \cup { [pattern |-> Some(<< "[", "a" >>), from_str |-> None, to_str |-> None, yes |-> y] :
             y \in BOOLEAN }
    \cup { [pattern |-> Some(<< "*" >>), from_str |-> Some(<< >>), to_str |-> None, yes |-> y] :
             y \in BOOLEAN }
    \cup { [pattern |-> Some(p), from_str |-> Some(f), to_str |-> Some(t), yes |-> y] :
             p \in ArgPatterns, f \in ArgFroms, t \in ArgTos, y \in BOOLEAN }

BatchArgs ==
    [pattern |-> Some(<< "*" >>), from_str |-> Some(<< "a" >>), to_str |-> Some(<< "b" >>),
     yes |-> TRUE]

Run(k, ok, d, refused, a) ==
    [pathKind |-> k, readDirOk |-> ok, dir |-> d, denied |-> refused, args |-> a]

FileNamesOf(d) == { d[i].name : i \in { j \in DOMAIN d : d[j].kind = "file" } }

\* the file a may be one the filesystem refuses to move
Refusals(d) == { {} } \cup { { n } : n \in FileNamesOf(d) \cap { << "a" >> } }

Runs ==
    \* the target is no directory
    { Run(k, FALSE, << >>, {}, a) : k \in { "file", "missing" }, a \in ArgSets }
    \* the directory cannot be opened
    \cup { Run("dir", FALSE, << >>, {}, a) : a \in ArgSets }
    \* the pipeline on small directories
    \cup UNION { { Run("dir", TRUE, d, r, a) : r \in Refusals(d), a \in ArgSets } :
                 d \in DirsOver(PipelineEntries) }
    \* the enumerator on small directories of every kind of entry
    \cup { Run("dir", TRUE, d, {}, BatchArgs) : d \in DirsOver(EnumeratorEntries) }
    \* the enumerator at its cap
    \cup { Run("dir", TRUE, d, r, BatchArgs) :
             d \in LargeDirs, r \in { {}, { GenName(2) } } }

Init ==
    /\ \E run \in Runs :
        /\ pathKind = run.pathKind
        /\ readDirOk = run.readDirOk
        /\ dir = run.dir
        /\ entries = ContentOf(run.dir)
        /\ denied = run.denied
        /\ args = run.args
    /\ pc = "start"
    /\ di = 1
    /\ ri = 1
    /\ files = << >>
    /\ all_files = << >>
    /\ p_input = << >>
    /\ f_input = << >>
    /\ t_input = << >>
    /\ pattern_str = << >>
    /\ from_str = << >>
    /\ to_str = << >>
    /\ matched_files = << >>
    /\ renames = << >>
    /\ confirmation = << >>
    /\ result = "running"
    /\ trace = << >>

Spec == Init /\ [][Next]_vars

(***************************************************************************)
(* Reading the trace                                                       *)
(***************************************************************************)

Has(ev) == \E i \in DOMAIN trace : trace[i].ev = ev
Count(ev) == Cardinality({ i \in DOMAIN trace : trace[i].ev = ev })
Where(ev) == { i \in DOMAIN trace : trace[i].ev = ev }
EventsOf(ev) == LET Is(e) == e.ev = ev IN SelectSeq(trace, Is)
LastEv == IF trace = << >> THEN "" ELSE trace[Len(trace)].ev

\* the plan is computed and not empty
PlanShown == Has("preview_header") /\ renames # << >>

\* the (old path, new path) pairs the executor is to attempt, in plan order
PlannedAttempts ==
    [i \in DOMAIN renames |->
        Ev("fs_rename", << "d", "/" >> \o renames[i][1], << "d", "/" >> \o renames[i][2])]

(***************************************************************************)
(* The claims                                                              *)
(***************************************************************************)

\* the answers the claim names as cancelling: "n", "N", "", "yes" and the end of input
NamedRefusals ==
    { << "n", "\n" >>, << "N", "\n" >>, << "\n" >>, << "y", "e", "s", "\n" >>, << >> }

\* C1: without the skip-confirmation flag and with a non-empty plan, the run
\* prompts for and reads one confirmation line; once that line is read, renames
\* are attempted exactly when the line, trimmed and lower-cased, is "y", and for
\* every other line (among them "n", "N", "", "yes" and the end of input)
\* the run reports cancellation, attempts no rename and returns Ok.
C1_ConfirmationDecides ==
    (~args.yes /\ PlanShown) =>
        /\ Count("prompt_confirm") = 1
        /\ \A i \in Where("prompt_confirm") :
            /\ \A j \in 1..(i - 1) : trace[j].ev # "fs_rename"
            /\ Cardinality({ j \in Where("read_line") : j > i }) <= 1
            /\ pc = "done" /\ result = "Ok" =>
                /\ i < Len(trace)
                /\ trace[i + 1].ev = "read_line"
                /\ LET answer == trace[i + 1].a
                       yes == ToLowercase(Trim(answer)) = << "y" >>
                   IN  /\ answer \in NamedRefusals => ~yes
                       /\ yes => /\ EventsOf("fs_rename") = PlannedAttempts
                                 /\ ~Has("cancelled")
                       /\ ~yes => /\ ~Has("fs_rename")
                                  /\ LastEv = "cancelled"
                                  /\ entries = ContentOf(dir)

\* C1 witness: a confirmation of "Y" was read and a rename followed, and in
\* another run the answer "yes" cancelled
C1_Witness ==
    /\ ~args.yes /\ pc = "done" /\ Has("fs_rename")
    /\ \E i \in Where("prompt_confirm") : trace[i + 1].a = << "Y", "\n" >>

C1_WitnessCancelled ==
    /\ ~args.yes /\ pc = "done" /\ LastEv = "cancelled"
    /\ \E i \in Where("prompt_confirm") : trace[i + 1].a = << "y", "e", "s", "\n" >>

\* C2: once the decision is to proceed, the executor attempts
\* rename(directory/old, directory/new) for every plan entry exactly once and
\* in plan order, reports each attempt right after it (a failure for the entry
\* that failed), goes on after a failure, and prints the completion message
\* after the last entry whether or not an attempt failed.
C2_EveryEntryAttempted ==
    Has("start") =>
        /\ pc \in { "rename", "done" }
        /\ \A i \in Where("fs_rename") :
            /\ i < Len(trace)
            /\ trace[i + 1].ev \in { "renamed", "failed" }
            /\ trace[i + 1].a = trace[i].a
        /\ Count("renamed") + Count("failed") = Count("fs_rename")
        /\ pc = "rename" =>
            /\ ri \in 1..(Len(renames) + 1)
            /\ EventsOf("fs_rename") = SubSeq(PlannedAttempts, 1, ri - 1)
            /\ ~Has("success")
        /\ pc = "done" =>
            /\ EventsOf("fs_rename") = PlannedAttempts
            /\ LastEv = "success"
            /\ Count("success") = 1
            /\ result = "Ok"

\* C2 witness: a finished run in which an attempt failed and a later entry
\* was attempted all the same
C2_Witness ==
    /\ pc = "done" /\ LastEv = "success"
    /\ \E i \in Where("failed") : \E j \in Where("fs_rename") : j > i

\* C3 as stated: with the skip-confirmation flag and a non-empty plan, the
\* decision is to proceed and no line is read from the standard input
\* anywhere in the run.
C3_NoStdinRead ==
    (args.yes /\ PlanShown) => (~Has("read_line") /\ pc \in { "decide", "rename", "done" })

\* C3 amended: with the skip-confirmation flag and a non-empty plan, the
\* decision is to proceed, no confirmation is prompted for and no line is read
\* after the plan is shown; the only lines read are the three of the
\* interactive prompts, and none is read when all three arguments are given.
C3_NoConfirmationRead ==
    (args.yes /\ PlanShown) =>
        /\ pc \in { "decide", "rename", "done" }
        /\ pc # "decide" => Has("start")
        /\ ~Has("prompt_confirm") /\ ~Has("cancelled")
        /\ \A i \in Where("preview_header") : \A j \in Where("read_line") : j < i
        /\ Count("read_line") =
             IF args.pattern.some /\ args.from_str.some /\ args.to_str.some THEN 0 ELSE 3
        /\ pc = "done" => EventsOf("fs_rename") = PlannedAttempts

\* C3 witness: a run with the flag finished its renames
C3_Witness ==
    args.yes /\ PlanShown /\ pc = "done" /\ Has("renamed") /\ LastEv = "success"

\* the line read right after the prompt ev
LineAfter(ev) == trace[(CHOOSE i \in Where(ev) : TRUE) + 1].a

\* the pattern, A and B are obtained: the pipeline is at or past the matcher
TripleObtained ==
    \/ pc \in { "filter", "plan", "read_confirm", "decide", "rename" }
    \/ Has("no_match")
    \/ Has("preview_header")
    \/ (LastEv = "Error" /\ trace[Len(trace)].a = << "pattern" >>)

\* C4: the run takes pattern, A and B from the arguments exactly when all three
\* are supplied; otherwise it prompts, for the pattern, then A, then B, and the
\* strings the matcher and the planner work with are the (trimmed) lines read
\* at the prompts, whatever arguments were partially supplied.
C4_ModeByAllThree ==
    Has("separator") =>
        IF args.pattern.some /\ args.from_str.some /\ args.to_str.some
        THEN /\ Has("mode_pattern")
             /\ ~Has("prompt_pattern") /\ ~Has("prompt_A") /\ ~Has("prompt_B")
             /\ pattern_str = args.pattern.v
             /\ from_str = args.from_str.v
             /\ to_str = args.to_str.v
        ELSE /\ ~Has("mode_pattern")
             /\ Count("prompt_pattern") = 1
             /\ TripleObtained =>
                 /\ Count("prompt_A") = 1 /\ Count("prompt_B") = 1
                 /\ \A i \in Where("prompt_pattern") : \A j \in Where("prompt_A") :
                        \A k \in Where("prompt_B") : i < j /\ j < k
                 /\ pattern_str = Trim(LineAfter("prompt_pattern"))
                 /\ from_str = Trim(LineAfter("prompt_A"))
                 /\ to_str = Trim(LineAfter("prompt_B"))
                 /\ (pc = "plan" \/ Has("no_match") \/ Has("preview_header")) =>
                        matched_files =
                            FilterMatched(PatternNew(Trim(LineAfter("prompt_pattern"))), all_files)
                 /\ Has("preview_header") =>
                        renames = Renames(matched_files, Trim(LineAfter("prompt_A")),
                                          Trim(LineAfter("prompt_B")))

\* C4 witness: only the pattern was supplied, as "*", and the plan was made
\* from another pattern, read at the prompt
C4_Witness ==
    /\ args.pattern.some /\ ~args.from_str.some
    /\ PlanShown
    /\ pattern_str # args.pattern.v

\* C5: on the interactive path the whole list of enumerated files is printed
\* before the pattern is prompted for, and the pattern, A and B are prompted
\* for in that order; a non-interactive run prints no file of the list.
C5_ListBeforePrompts ==
    /\ Has("prompt_pattern") =>
        /\ EventsOf("file") = FileEvents(all_files)
        /\ \A i \in Where("file") : \A j \in Where("prompt_pattern") : i < j
        /\ \A i \in Where("prompt_pattern") : \A j \in Where("prompt_A") : i < j
        /\ \A i \in Where("prompt_A") : \A j \in Where("prompt_B") : i < j
    /\ Has("mode_pattern") => ~Has("file")

\* s holds a at position i
Holds(s, a, i) ==
    /\ i + Len(a) - 1 <= Len(s)
    /\ \A k \in 1..Len(a) : s[i + k - 1] = a[k]

\* the occurrences of a in s that a left-to-right, non-overlapping replacement
\* takes: no two overlap, and an occurrence is left out only where an earlier
\* taken one covers its start
Taken(s, a) ==
    LET occ == { i \in 1..(Len(s) + 1) : Holds(s, a, i) }
    IN  CHOOSE S \in SUBSET occ :
            /\ \A i, j \in S : i < j => i + Len(a) <= j
            /\ \A i \in occ \ S : \E j \in S : j < i /\ i < j + Len(a)

\* t is s with every taken occurrence of a replaced by b
IsReplaced(s, a, b, t) ==
    LET S == Taken(s, a)
        grow == Len(b) - Len(a)
        Passed(i) == Cardinality({ j \in S : j + Len(a) <= i })
        Earlier(j) == Cardinality({ k \in S : k < j })
        Covered(i) == \E j \in S : j <= i /\ i < j + Len(a)
    IN  /\ Len(t) = Len(s) + Cardinality(S) * grow
        /\ \A i \in 1..Len(s) : ~Covered(i) => t[i + Passed(i) * grow] = s[i]
        /\ \A j \in S : \A k \in 1..Len(b) : t[j + Earlier(j) * grow + k - 1] = b[k]

\* C6: the plan holds, in the order of the matched names, one pair (old, new)
\* for exactly the matched names that the replacement of every non-overlapping
\* occurrence of A by B changes, new being the changed name; the plan is what
\* is rendered, and no pair with old = new is rendered or handed to a rename.
C6_PlanIsChangedNames ==
    Has("preview_header") =>
        LET Changed(name) == ~IsReplaced(name, from_str, to_str, name)
            changed == SelectSeq(matched_files, Changed)
        IN  /\ Len(renames) = Len(changed)
            /\ \A k \in DOMAIN renames :
                /\ renames[k][1] = changed[k]
                /\ IsReplaced(renames[k][1], from_str, to_str, renames[k][2])
                /\ renames[k][1] # renames[k][2]
            /\ EventsOf("plan") = [k \in DOMAIN renames |-> Ev("plan", renames[k][1], renames[k][2])]
            /\ \A i \in DOMAIN trace :
                trace[i].ev \in { "plan", "fs_rename" } => trace[i].a # trace[i].b
            /\ \A i \in Where("fs_rename") :
                \E k \in DOMAIN renames :
                    trace[i].a = << "d", "/" >> \o renames[k][1]
                    /\ trace[i].b = << "d", "/" >> \o renames[k][2]

\* C6 witness: a matched name was left out of the plan, and a name with two
\* occurrences of A was renamed
C6_Witness ==
    /\ pc = "done" /\ Has("fs_rename")
    /\ Len(matched_files) > Len(renames)
    /\ \E k \in DOMAIN renames :
        renames[k] = << << "a", "a" >>, << "b", "b" >> >>

\* C7: when the plan is empty once the unchanged names are filtered out, the
\* run says that nothing needs renaming and returns Ok: no confirmation is
\* prompted for or read, no rename is attempted, the directory is as it was.
C7_EmptyPlanStops ==
    /\ (Has("preview_header") /\ renames = << >>) =>
        /\ pc = "done" /\ result = "Ok"
        /\ LastEv = "nothing_to_rename"
        /\ ~Has("prompt_confirm") /\ ~Has("plan") /\ ~Has("start")
        /\ \A i \in Where("preview_header") : \A j \in Where("read_line") : j < i
        /\ ~Has("fs_rename")
        /\ entries = ContentOf(dir)
    /\ Has("nothing_to_rename") => (renames = << >> /\ matched_files # << >>)

\* C7 witness: names were matched, none was changed, the run is over
C7_Witness ==
    /\ pc = "done" /\ LastEv = "nothing_to_rename"
    /\ matched_files # << >> /\ ~args.yes

\* the error main printed, "" when there is none
ErrorKind == IF LastEv = "Error" THEN trace[Len(trace)].a[1] ELSE ""

\* two patterns Pattern::new rejects: a '[' that is never closed
Malformed == { << "[" >>, << "[", "a" >> }

\* entry k of the directory is a regular file the enumerator can name
Qualifies(k) == dir[k].kind = "file" /\ dir[k].fault = "none"
QualifiedBefore(k) == Cardinality({ j \in 1..(k - 1) : Qualifies(j) })

\* entry k cannot be read, and the enumerator gets to it
FailsAt(k) ==
    /\ dir[k].fault \in { "entry_err", "type_err" }
    /\ QualifiedBefore(k) < FILE_CAP
    /\ \A j \in 1..(k - 1) : dir[j].fault \notin { "entry_err", "type_err" }

\* C8: a target that is not a directory, an I/O error of the enumeration and a
\* malformed pattern each end the run with one error, printed last by main;
\* after it no plan is rendered, no confirmation is read and no rename is
\* attempted, and a bad target fails before the enumeration and any prompt.
C8_FatalErrorsStop ==
    /\ pathKind # "dir" =>
        /\ pc \in { "start", "done" }
        /\ pc = "done" =>
            /\ result = "Err"
            /\ trace = << E("fs_is_dir"), Ev("Error", << "not_a_directory" >>, << >>) >>
    /\ (pathKind = "dir" /\ ~readDirOk) =>
        /\ pc \in { "start", "read_dir", "done" }
        /\ pc = "done" => (result = "Err" /\ ErrorKind = "io")
    /\ \A k \in DOMAIN dir :
        (FailsAt(k) /\ readDirOk /\ pathKind = "dir") =>
            /\ pc \in { "start", "read_dir", "list_loop", "done" }
            /\ pc = "done" => (result = "Err" /\ ErrorKind = "io")
    /\ (pattern_str \in Malformed /\ TripleObtained) =>
        /\ pc \in { "filter", "done" }
        /\ pc = "done" => (result = "Err" /\ ErrorKind = "pattern")
    /\ Has("Error") <=> result = "Err"
    /\ result = "Err" =>
        /\ pc = "done"
        /\ Count("Error") = 1 /\ LastEv = "Error"
        /\ ~Has("fs_rename") /\ ~Has("start")
        /\ entries = ContentOf(dir)
        /\ ErrorKind \in { "not_a_directory", "io", "pattern" } =>
            ~Has("preview_header") /\ ~Has("plan") /\ ~Has("prompt_confirm")
        /\ ErrorKind \in { "not_a_directory", "io" } =>
            ~Has("read_line") /\ ~Has("prompt_pattern") /\ ~Has("separator")

\* C8 witness: a malformed pattern typed at the prompt ended the run
C8_Witness ==
    /\ result = "Err" /\ ErrorKind = "pattern"
    /\ Has("prompt_B") /\ pattern_str = << "[" >>

\* C8 witnesses of the other two kinds
C8_WitnessTarget == pc = "done" /\ pathKind = "missing"
C8_WitnessEnumeration == pc = "done" /\ ErrorKind = "io" /\ files # << >>

\* the line read at the prompt at position i of the trace, when one was read
AnsweredAt(i) ==
    /\ i < Len(trace)
    /\ trace[i + 1].ev = "read_line"
    /\ ~(i + 2 = Len(trace) /\ ErrorKind = "stdin")

FilesystemEvents == { "fs_is_dir", "fs_read_dir", "fs_rename" }

\* what C9 says after an empty pattern or an empty A, with f the set of
\* filesystem calls that must not have been made
StopsAt(i, message, next_prompt, f) ==
    /\ pc = "done" /\ result = "Ok"
    /\ Len(trace) = i + 2 /\ LastEv = message
    /\ ~Has(next_prompt)
    /\ \A j \in DOMAIN trace : trace[j].ev \notin f
    /\ entries = ContentOf(dir)

\* what C9 says of the three prompts
EmptyInputs(f) ==
    /\ \A i \in Where("prompt_pattern") :
        AnsweredAt(i) =>
            IF Trim(trace[i + 1].a) = << >>
            THEN StopsAt(i, "no_pattern", "prompt_A", f)
            ELSE Has("prompt_A")
    /\ \A i \in Where("prompt_A") :
        AnsweredAt(i) =>
            IF Trim(trace[i + 1].a) = << >>
            THEN StopsAt(i, "empty_A", "prompt_B", f)
            ELSE Has("prompt_B")
    /\ \A i \in Where("prompt_B") :
        (AnsweredAt(i) /\ Trim(trace[i + 1].a) = << >>) =>
            /\ to_str = << >>
            /\ \/ pc \in { "filter", "plan" }
               \/ /\ i + 2 <= Len(trace)
                  /\ trace[i + 2].ev \in { "no_match", "preview_header", "Error" }
                  /\ trace[i + 2].ev = "Error" => ErrorKind = "pattern"

\* C9 as stated: in interactive mode an empty pattern or an empty A ends the
\* run at once with a message, with Ok and with no filesystem call at all (no
\* A is prompted for after an empty pattern, no B after an empty A), and an
\* empty B is accepted, the pipeline going on with B the empty string.
C9_ZeroFilesystemCalls == EmptyInputs(FilesystemEvents)

\* C9 amended: the same, with "no rename is attempted and the directory is
\* unchanged" for "no filesystem call at all": the directory check and the
\* enumeration were made before the first prompt.
C9_EmptyInputCancels ==
    /\ EmptyInputs({ "fs_rename" })
    /\ \A i \in Where("prompt_pattern") :
        /\ \E j \in 1..(i - 1) : trace[j].ev = "fs_is_dir"
        /\ \E j \in 1..(i - 1) : trace[j].ev = "fs_read_dir"

\* C9 witness: the pattern was typed, A was left empty, the run is over
C9_Witness ==
    /\ pc = "done" /\ result = "Ok" /\ LastEv = "empty_A"
    /\ pattern_str # << >> /\ f_input = << "\n" >>

\* C9 witness of the empty B: a rename that deleted the occurrences of A
C9_WitnessEmptyB ==
    /\ Has("prompt_B") /\ t_input = << "\n" >> /\ Has("renamed")

\* s sorts before t: t goes on where s ends, or the first difference is smaller in s
SortsBefore(s, t) ==
    \E k \in 1..Len(t) :
        /\ \A m \in 1..(k - 1) : m <= Len(s) /\ s[m] = t[m]
        /\ k - 1 <= Len(s)
        /\ (k > Len(s) \/ Ord(s[k]) < Ord(t[k]))

\* the enumeration is over and returned its list
Listed ==
    /\ pc \notin { "start", "read_dir", "list_loop", "list_done" }
    /\ ErrorKind \notin { "not_a_directory", "io" }

\* C10: the enumerator's output is sorted, without duplicates, of at most 50
\* names, each the base name of a regular file of the directory; the
\* enumeration stops at the 50th such entry, so that a regular file that
\* read_dir yields later is not in the output and is never renamed.
C10_EnumeratorOutput ==
    /\ \A i \in 1..(Len(all_files) - 1) : SortsBefore(all_files[i], all_files[i + 1])
    /\ Cardinality({ all_files[i] : i \in DOMAIN all_files }) = Len(all_files)
    /\ Len(all_files) <= FILE_CAP
    /\ Len(files) <= FILE_CAP
    /\ \A i \in DOMAIN all_files :
        \E k \in DOMAIN dir : Qualifies(k) /\ dir[k].name = all_files[i]
    /\ Listed =>
        { all_files[i] : i \in DOMAIN all_files }
            = { dir[k].name : k \in { j \in DOMAIN dir : Qualifies(j) /\ QualifiedBefore(j) < FILE_CAP } }
    /\ \A k \in DOMAIN dir :
        QualifiedBefore(k) >= FILE_CAP =>
            /\ di <= k
            /\ Qualifies(k) =>
                /\ \A i \in DOMAIN all_files : all_files[i] # dir[k].name
                /\ \A i \in Where("fs_rename") : trace[i].a # << "d", "/" >> \o dir[k].name

\* C10 witness: read_dir yields a regular file after the 50th, in an unsorted
\* order, and the run renamed files
C10_Witness ==
    /\ pc = "done" /\ Has("renamed")
    /\ Len(all_files) = FILE_CAP
    /\ \E k \in DOMAIN dir : Qualifies(k) /\ QualifiedBefore(k) >= FILE_CAP
    /\ \E k \in DOMAIN dir : k > 1 /\ SortsBefore(dir[k].name, dir[k - 1].name)

====
